---- MODULE Spec2Model ----
(***************************************************************************)
(* A model of choreograph::Sequence<T> (src/src/choreograph/Sequence.hpp). *)
(*                                                                         *)
(* A Sequence object holds, by value, its initial value, the cached start   *)
(* and end time of its Source<T> base, and a std::vector of shared phrase   *)
(* handles.  The vector's storage is modelled as a cell of `vecs`, named by *)
(* the object's `vec` field, so that copying an object is an operation on   *)
(* storage and not an identity.  Time and values are exact integers.  The   *)
(* durations passed to then and the values of T are even numbers while a    *)
(* query time is any integer, so a phrase has a time strictly inside it and *)
(* a ramp a value strictly between its bounds.                              *)
(***************************************************************************)
EXTENDS Integers, Sequences, FiniteSets, TLC

VARIABLES
    seqs,   \* object id -> [initial_value, startTime, endTime, vec]
    vecs,   \* vector storage id -> the phrase list it holds
    alive,  \* the object ids that have been constructed
    hist,   \* per object: sum of the durations passed to then, length of the
            \* constructor's list, the original as it was when copied
    last,   \* the last completed call, with the objects as they were before it
    writer, \* the then call in flight, if any: where it is, its local phrase
    reader  \* the last getValue call of the reading thread and what it returned

vars == <<seqs, vecs, alive, hist, last, writer, reader>>

\* ---------------------------------------------------------------- bounds
MaxValue == 1        \* T ranges over the even numbers 0 .. 2*MaxValue
MaxDur == 1          \* then() durations are the even numbers 0 .. 2*MaxDur
MaxNegDur == 1       \* the negative duration tried is -2*MaxNegDur
MaxPhrases == 3      \* no phrase is appended to a list of this length
MaxCopyPhrases == 2  \* the same, in the copy scenario (two objects)
MaxConcPhrases == 2  \* the same, in the scenario with a reading thread
CtorStartTime == 1   \* start time of the first phrase of a caller-built list

Objs == {1, 2}
Kinds == {"Hold", "RampTo"}
Values == {i + i : i \in 0..MaxValue}
Durations == {i + i : i \in 0..MaxDur}
AnyDurations == Durations \cup {0 - (MaxNegDur + MaxNegDur)}
TimeLo == 0 - (MaxPhrases * (MaxNegDur + MaxNegDur)) - 1
TimeHi == CtorStartTime + (MaxPhrases * (MaxDur + MaxDur)) + 1
Times == TimeLo..TimeHi
ConcTimes == (0 - 1)..((MaxConcPhrases * (MaxDur + MaxDur)) + 1)

\* ------------------------------------------------ Phrase (collaborator)
\* Phrase.hpp and Source.h are modelled from their interface contract: a
\* phrase reports the bounds it was
\* constructed with, a Hold is constant at its end value and a RampTo
\* interpolates linearly.
MakePhrase(kind, startTime, endTime, startValue, endValue) ==
    [kind |-> kind, startTime |-> startTime, endTime |-> endTime,
     startValue |-> startValue, endValue |-> endValue]

PhraseGetValue(p, t) ==
    IF p.kind = "Hold" \/ p.endTime = p.startTime
    THEN p.endValue
    ELSE p.startValue
         + (((p.endValue - p.startValue) * (t - p.startTime))
            \div (p.endTime - p.startTime))

InPhrase(p, t) == p.startTime <= t /\ t < p.endTime

\* ------------------------------------------------------------- Sequence
\* A Sequence as one value: s.phrases is the content of its vector.
SequenceFromValue(value) ==
    [initial_value |-> value, startTime |-> 0, endTime |-> 0, phrases |-> <<>>]

SequenceFromPhrasesBack(phrases) ==
    [initial_value |-> phrases[Len(phrases)].startValue,
     startTime |-> phrases[1].startTime,
     endTime |-> phrases[Len(phrases)].endTime,
     phrases |-> phrases]

SequenceFromPhrases(phrases) ==
    [initial_value |-> phrases[1].startValue,
     startTime |-> phrases[1].startTime,
     endTime |-> phrases[Len(phrases)].endTime,
     phrases |-> phrases]

GetStartTime(s) == s.startTime

GetEndTime(s) == s.endTime

SetEndTime(s, t) == [s EXCEPT !.endTime = t]

GetPhraseCount(s) == Len(s.phrases)

GetEndValue(s) ==
    IF s.phrases = <<>> THEN s.initial_value
    ELSE s.phrases[Len(s.phrases)].endValue

GetStartValue(s) == s.initial_value

PushBackSettingEndTime(s, phrase) ==
    [s EXCEPT !.phrases = Append(@, phrase), !.endTime = phrase.endTime]

PushFront(s, phrase) == [s EXCEPT !.phrases = <<phrase>> \o @]

PushBack(s, phrase) == [s EXCEPT !.phrases = Append(@, phrase)]

ThenStartFromInitial(s, kind, value, duration) ==
    LET phrase == MakePhrase(kind, GetEndTime(s), GetEndTime(s) + duration,
                             GetStartValue(s), value)
    IN  SetEndTime(PushBack(s, phrase), phrase.endTime)

ThenEndIsDuration(s, kind, value, duration) ==
    LET phrase == MakePhrase(kind, GetEndTime(s), GetEndTime(s) + duration,
                             GetEndValue(s), value)
    IN  SetEndTime(PushBack(s, phrase), duration)

ThenNoSetEndTime(s, kind, value, duration) ==
    LET phrase == MakePhrase(kind, GetEndTime(s), GetEndTime(s) + duration,
                             GetEndValue(s), value)
    IN  PushBack(s, phrase)

\* then<PhraseT>( value, duration ): construct, push_back, setEndTime.
Then(s, kind, value, duration) ==
    LET phrase == MakePhrase(kind, GetEndTime(s), GetEndTime(s) + duration,
                             GetEndValue(s), value)
    IN  SetEndTime(PushBack(s, phrase), phrase.endTime)

SetAlwaysOverwrites(s, value) == [s EXCEPT !.initial_value = value]

SetAlwaysAppends(s, value) == Then(s, "Hold", value, 0)

Set(s, value) ==
    IF s.phrases = <<>>
    THEN [s EXCEPT !.initial_value = value]
    ELSE Then(s, "Hold", value, 0)

\* The scan of getValue: the index of the first phrase from i on whose end
\* time is greater than t, or 0 when the loop runs off the end of the list.
RECURSIVE ScanFromInclusive(_, _, _)
ScanFromInclusive(phrases, i, t) ==
    IF i > Len(phrases) THEN 0
    ELSE IF phrases[i].endTime >= t THEN i
    ELSE ScanFromInclusive(phrases, i + 1, t)

RECURSIVE ScanFromByStartTime(_, _, _)
ScanFromByStartTime(phrases, i, t) ==
    IF i > Len(phrases) THEN 0
    ELSE IF phrases[i].startTime > t THEN i
    ELSE ScanFromByStartTime(phrases, i + 1, t)

RECURSIVE ScanFrom(_, _, _)
ScanFrom(phrases, i, t) ==
    IF i > Len(phrases) THEN 0
    ELSE IF phrases[i].endTime > t THEN i
    ELSE ScanFrom(phrases, i + 1, t)

\* Which return statement of getValue is taken at time t.
GetValueBranch(s, t) ==
    IF t < GetStartTime(s) THEN "initial"
    ELSE IF t >= GetEndTime(s) THEN "end"
    ELSE IF ScanFrom(s.phrases, 1, t) # 0 THEN "scan"
    ELSE "fallback"

GetValueNoInitialClamp(s, t) ==
    IF t >= GetEndTime(s) THEN GetEndValue(s)
    ELSE IF ScanFrom(s.phrases, 1, t) # 0
         THEN PhraseGetValue(s.phrases[ScanFrom(s.phrases, 1, t)], t)
         ELSE GetEndValue(s)

GetValue(s, t) ==
    IF t < GetStartTime(s) THEN s.initial_value
    ELSE IF t >= GetEndTime(s) THEN GetEndValue(s)
    ELSE IF ScanFrom(s.phrases, 1, t) # 0
         THEN PhraseGetValue(s.phrases[ScanFrom(s.phrases, 1, t)], t)
         ELSE GetEndValue(s)

\* ------------------------------------------------------ objects, storage
\* The Sequence object k as one value.
View(k) ==
    [initial_value |-> seqs[k].initial_value,
     startTime |-> seqs[k].startTime,
     endTime |-> seqs[k].endTime,
     phrases |-> vecs[seqs[k].vec]]

Views == [k \in alive |-> View(k)]

Fields(s, vec) ==
    [initial_value |-> s.initial_value, startTime |-> s.startTime,
     endTime |-> s.endTime, vec |-> vec]

NoObject == Fields(SequenceFromValue(0), 0)

\* copy(): the implicit copy constructor copies every member; the copy of a
\* std::vector has storage of its own, here cell `to`.
CopyVecShared(from, to) == from

CopyVec(from, to) == to

\* No then call in flight; no getValue call made yet.
Idle ==
    [pc |-> "idle", phrase |-> MakePhrase("Hold", 0, 0, 0, 0),
     pre |-> SequenceFromValue(0)]

NoRead == [valid |-> FALSE, t |-> 0, value |-> 0, during |-> FALSE]

\* --------------------------------------------------------- constructors
\* A caller-built list: one or two phrases in chronological order, the first
\* starting at CtorStartTime, each with any duration and any bound values (the
\* second need not start at the value the first ends at).
CtorPhrase(startTime, duration, startValue, endValue) ==
    MakePhrase("Hold", startTime, startTime + duration, startValue, endValue)

CtorLists ==
    LET Firsts == {CtorPhrase(CtorStartTime, d, a, b) :
                      d \in Durations, a \in Values, b \in Values}
    IN  {<<p>> : p \in Firsts}
        \cup UNION {{<<p, CtorPhrase(p.endTime, d, a, b)>> :
                        d \in Durations, a \in Values, b \in Values} :
                    p \in Firsts}

Constructed(s) ==
    /\ seqs = [k \in Objs |-> IF k = 1 THEN Fields(s, 1) ELSE NoObject]
    /\ vecs = [k \in Objs |-> IF k = 1 THEN s.phrases ELSE <<>>]
    /\ alive = {1}
    /\ hist = [k \in Objs |-> [sumDur |-> 0, ctorLen |-> Len(s.phrases),
                               origin |-> SequenceFromValue(0)]]
    /\ last = [op |-> "construct", target |-> 1, kind |-> "Hold", value |-> 0,
               duration |-> 0, pre |-> [k \in {1} |-> s]]
    /\ writer = Idle
    /\ reader = NoRead

Init == \E value \in Values : Constructed(SequenceFromValue(value))

InitList ==
    \/ \E value \in Values : Constructed(SequenceFromValue(value))
    \/ \E phrases \in CtorLists : Constructed(SequenceFromPhrases(phrases))

\* Sequence(phrases) with an empty list: phrases.front() and phrases.back()
\* are read although the list has no element, which is undefined behaviour.
\* The outcomes a build can produce: the process dies in the constructor and
\* there is no object, or the reads return whatever lies in the vector's
\* storage and a Sequence without phrases is constructed from it.
StaleTimes == {0, CtorStartTime}

ConstructedFromEmpty ==
    \/ /\ seqs = [k \in Objs |-> NoObject]
       /\ vecs = [k \in Objs |-> <<>>]
       /\ alive = {}
       /\ hist = [k \in Objs |-> [sumDur |-> 0, ctorLen |-> 0,
                                  origin |-> SequenceFromValue(0)]]
       /\ last = [op |-> "construct_empty", target |-> 1, kind |-> "Hold",
                  value |-> 0, duration |-> 0, pre |-> <<>>]
       /\ writer = Idle
       /\ reader = NoRead
    \/ \E value \in Values, startTime \in StaleTimes, endTime \in StaleTimes :
           LET s == [initial_value |-> value, startTime |-> startTime,
                     endTime |-> endTime, phrases |-> <<>>]
           IN  /\ seqs = [k \in Objs |-> IF k = 1 THEN Fields(s, 1) ELSE NoObject]
               /\ vecs = [k \in Objs |-> <<>>]
               /\ alive = {1}
               /\ hist = [k \in Objs |-> [sumDur |-> 0, ctorLen |-> 0,
                                          origin |-> SequenceFromValue(0)]]
               /\ last = [op |-> "construct_empty", target |-> 1,
                          kind |-> "Hold", value |-> 0, duration |-> 0,
                          pre |-> <<>>]
               /\ writer = Idle
               /\ reader = NoRead

\* Any list, empty or not.
InitAnyList == InitList \/ ConstructedFromEmpty

\* -------------------------------------------------------------- actions
\* Store the Sequence value s back into object k and its vector.
Store(k, s) ==
    /\ seqs' = [seqs EXCEPT ![k] = Fields(s, seqs[k].vec)]
    /\ vecs' = [vecs EXCEPT ![seqs[k].vec] = s.phrases]

DoThen(k, kind, value, duration) ==
    /\ Store(k, Then(View(k), kind, value, duration))
    /\ hist' = [hist EXCEPT ![k].sumDur = @ + duration]
    /\ last' = [op |-> "then", target |-> k, kind |-> kind, value |-> value,
                duration |-> duration, pre |-> Views]
    /\ UNCHANGED <<alive, writer, reader>>

DoSet(k, value) ==
    /\ Store(k, Set(View(k), value))
    /\ last' = [op |-> "set", target |-> k, kind |-> "Hold", value |-> value,
                duration |-> 0, pre |-> Views]
    /\ UNCHANGED <<alive, hist, writer, reader>>

ThenCall ==
    \E kind \in Kinds, value \in Values, duration \in Durations :
        /\ Len(vecs[seqs[1].vec]) < MaxPhrases
        /\ DoThen(1, kind, value, duration)

SetCall ==
    \E value \in Values :
        /\ Len(vecs[seqs[1].vec]) < MaxPhrases
        /\ DoSet(1, value)

\* then() as the code accepts it: the duration is not examined.
ThenAnyCall ==
    \E kind \in Kinds, value \in Values, duration \in AnyDurations :
        /\ Len(vecs[seqs[1].vec]) < MaxPhrases
        /\ DoThen(1, kind, value, duration)

\* The copy scenario: object 1 is built, copied into object 2, and from then
\* on the calls go to the copy.
CopyTarget == IF 2 \in alive THEN 2 ELSE 1

CopyCall ==
    /\ 2 \notin alive
    /\ seqs' = [seqs EXCEPT ![2] = Fields(View(1), CopyVec(seqs[1].vec, 2))]
    /\ vecs' = [vecs EXCEPT ![CopyVec(seqs[1].vec, 2)] = vecs[seqs[1].vec]]
    /\ alive' = alive \cup {2}
    /\ hist' = [hist EXCEPT ![2] = [hist[1] EXCEPT !.origin = View(1)]]
    /\ last' = [op |-> "copy", target |-> 1, kind |-> "Hold", value |-> 0,
                duration |-> 0, pre |-> Views]
    /\ UNCHANGED <<writer, reader>>

ThenOnCopy ==
    \E kind \in Kinds, value \in Values, duration \in AnyDurations :
        /\ Len(vecs[seqs[CopyTarget].vec]) < MaxCopyPhrases
        /\ DoThen(CopyTarget, kind, value, duration)

SetOnCopy ==
    \E value \in Values :
        /\ Len(vecs[seqs[CopyTarget].vec]) < MaxCopyPhrases
        /\ DoSet(CopyTarget, value)

\* The scenario with a reading thread: then runs as its two writes, the
\* push_back and the setEndTime, and a getValue call of the other thread
\* runs before, between or after them.
\* then, up to and including _phrases.push_back( phrase ).
AppendStep(kind, value, duration) ==
    LET s == View(1)
        phrase == MakePhrase(kind, GetEndTime(s), GetEndTime(s) + duration,
                             GetEndValue(s), value)
    IN  /\ writer.pc = "idle"
        /\ Len(s.phrases) < MaxConcPhrases
        /\ Store(1, PushBack(s, phrase))
        /\ writer' = [pc |-> "appended", phrase |-> phrase, pre |-> s]
        /\ reader' = NoRead
        /\ last' = [op |-> "push_back", target |-> 1, kind |-> kind,
                    value |-> value, duration |-> duration, pre |-> Views]
        /\ UNCHANGED <<alive, hist>>

ThenAppend ==
    \E kind \in Kinds, value \in Values, duration \in Durations :
        AppendStep(kind, value, duration)

\* then, from this->setEndTime( phrase->getEndTime() ) to its return.
ThenSetEnd ==
    /\ writer.pc = "appended"
    /\ Store(1, SetEndTime(View(1), writer.phrase.endTime))
    /\ writer' = Idle
    /\ reader' = NoRead
    /\ hist' = [hist EXCEPT
                   ![1].sumDur = @ + last.duration]
    /\ last' = [last EXCEPT !.op = "then", !.pre = [k \in {1} |-> writer.pre]]
    /\ UNCHANGED alive

\* set: the assignment when there is no phrase, else the start of then<Hold>.
SetStart ==
    \E value \in Values :
        IF vecs[seqs[1].vec] = <<>>
        THEN /\ writer.pc = "idle"
             /\ Store(1, Set(View(1), value))
             /\ reader' = NoRead
             /\ last' = [op |-> "set", target |-> 1, kind |-> "Hold",
                         value |-> value, duration |-> 0, pre |-> Views]
             /\ UNCHANGED <<alive, hist, writer>>
        ELSE AppendStep("Hold", value, 0)

\* getValue( t ) on the reading thread.
GetValueCall ==
    \E t \in ConcTimes :
        /\ reader' = [valid |-> TRUE, t |-> t, value |-> GetValue(View(1), t),
                      during |-> writer.pc = "appended"]
        /\ UNCHANGED <<seqs, vecs, alive, hist, last, writer>>

NextConc == ThenAppend \/ ThenSetEnd \/ SetStart \/ GetValueCall

Next == ThenCall \/ SetCall

NextAny == ThenAnyCall \/ SetCall

NextCopy == ThenOnCopy \/ SetOnCopy \/ CopyCall

\* Sequence(value), then any then (duration >= 0) and set calls.
Spec == Init /\ [][Next]_vars

\* Either constructor, then any then (any duration) and set calls.
SpecAny == InitList /\ [][NextAny]_vars

\* Sequence(value), calls on it, copy(), calls on the copy.
SpecCopy == Init /\ [][NextCopy]_vars

\* Either constructor, the list possibly empty; calls go to the object if
\* there is one.
NextOnObject == 1 \in alive /\ NextAny

SpecEmpty == InitAnyList /\ [][NextOnObject]_vars

\* Sequence(value), then a writing thread making then (duration >= 0) and set
\* calls and a reading thread making getValue calls.
SpecConc == Init /\ [][NextConc]_vars

\* ---------------------------------------------------------------- claims
Mutation == {"then", "set"}

\* What a caller can observe of a Sequence.
Obs(s) ==
    [count |-> GetPhraseCount(s), startTime |-> GetStartTime(s),
     endTime |-> GetEndTime(s), startValue |-> GetStartValue(s),
     endValue |-> GetEndValue(s), values |-> [t \in Times |-> GetValue(s, t)]]

Hits(s, t) == {i \in 1..Len(s.phrases) : InPhrase(s.phrases[i], t)}

\* C1: in a Sequence built from a value by then (duration >= 0) and set, at
\* every time t with getStartTime() <= t < getEndTime() exactly one phrase
\* has startTime <= t < endTime, getValue returns from inside the scan, the
\* phrase the scan stops at is that phrase, and the value returned is that
\* phrase's getValue(t).
C1_ScanFindsTheContainingPhrase ==
    \A t \in Times :
        LET s == View(1)
        IN  (GetStartTime(s) <= t /\ t < GetEndTime(s)) =>
                /\ Cardinality(Hits(s, t)) = 1
                /\ GetValueBranch(s, t) = "scan"
                /\ ScanFrom(s.phrases, 1, t) \in Hits(s, t)
                /\ \A i \in Hits(s, t) :
                       GetValue(s, t) = PhraseGetValue(s.phrases[i], t)

\* Three phrases, the second of zero length, queried inside the third, a ramp
\* whose value there is neither of its bounds.
C1_Witness ==
    \E t \in Times :
        LET s == View(1)
        IN  /\ Len(s.phrases) = 3
            /\ s.phrases[2].startTime = s.phrases[2].endTime
            /\ s.phrases[1].startTime < s.phrases[1].endTime
            /\ Hits(s, t) = {3}
            /\ GetValue(s, t) # s.phrases[3].startValue
            /\ GetValue(s, t) # s.phrases[3].endValue

\* C2: after either constructor and any then and set calls, getValue(t) =
\* getEndValue() at every time t >= getEndTime().
C2_EndClamp ==
    \A t \in Times :
        t >= GetEndTime(View(1)) => GetValue(View(1), t) = GetEndValue(View(1))

\* C3: after either constructor and any then and set calls, getValue(t) =
\* initialValue = getStartValue() at every time t < getStartTime().
C3_InitialClamp ==
    \A t \in Times :
        t < GetStartTime(View(1)) =>
            /\ GetValue(View(1), t) = View(1).initial_value
            /\ GetValue(View(1), t) = GetStartValue(View(1))

\* A Sequence that starts with a ramp away from its initial value, queried
\* before its start, where the ramp itself would give another value.
C3_Witness ==
    \E t \in Times :
        LET s == View(1)
        IN  /\ t < GetStartTime(s)
            /\ last.op = "then"
            /\ s.phrases[1].kind = "RampTo"
            /\ GetValue(s, t) = s.initial_value
            /\ PhraseGetValue(s.phrases[1], t) # s.initial_value

\* C4: every phrase appended by then or by set starts where its predecessor
\* ends, in time and in value, and its start time and start value are the
\* Sequence's getEndTime() and getEndValue() at the moment of the append.
C4_Continuity ==
    LET s == View(1)
        n == Len(s.phrases)
    IN  /\ \A i \in 2..n :
               i > hist[1].ctorLen =>
                   /\ s.phrases[i - 1].endTime = s.phrases[i].startTime
                   /\ s.phrases[i - 1].endValue = s.phrases[i].startValue
        /\ (last.op \in Mutation /\ n > Len(last.pre[1].phrases)) =>
               /\ s.phrases[n].startTime = GetEndTime(last.pre[1])
               /\ s.phrases[n].startValue = GetEndValue(last.pre[1])

\* Two appended phrases after a phrase that ends away from where the Sequence
\* starts, in time and in value.
C4_Witness ==
    LET s == View(1)
    IN  /\ Len(s.phrases) = 3
        /\ Len(s.phrases) > hist[1].ctorLen + 1
        /\ last.op \in Mutation
        /\ s.phrases[2].endTime # GetStartTime(s)
        /\ s.phrases[2].endValue # GetStartValue(s)
        /\ s.phrases[3].startValue # s.phrases[3].endValue

\* C5: from Sequence(value), getEndTime() is the sum of the durations passed
\* to then so far, no then or set call decreases it, and getStartTime() is 0.
C5_MonotonicGrowth ==
    /\ GetEndTime(View(1)) = hist[1].sumDur
    /\ GetStartTime(View(1)) = 0
    /\ last.op \in Mutation => GetEndTime(View(1)) >= GetEndTime(last.pre[1])

\* A third then call, of positive duration, on a Sequence whose end time had
\* already moved, with a set call somewhere before it.
C5_Witness ==
    LET s == View(1)
    IN  /\ Len(s.phrases) = 3
        /\ last.op = "then"
        /\ last.duration > 0
        /\ GetEndTime(last.pre[1]) > 0
        /\ GetEndTime(s) = GetEndTime(last.pre[1]) + last.duration
        /\ \E i \in 1..2 : s.phrases[i].endTime = s.phrases[i].startTime

\* C6: set(value) on a Sequence with a phrase appends one phrase of zero
\* duration: the phrases before it are as they were, getEndTime() is as
\* before, getEndValue() is value, the new phrase starts at the previous end
\* time and end value, and getStartValue() is unchanged.
C6_SetAppendsHold ==
    (last.op = "set" /\ last.pre[1].phrases # <<>>) =>
        LET s == View(1)
            p == last.pre[1]
            n == Len(s.phrases)
        IN  /\ GetPhraseCount(s) = GetPhraseCount(p) + 1
            /\ SubSeq(s.phrases, 1, n - 1) = p.phrases
            /\ GetEndTime(s) = GetEndTime(p)
            /\ GetEndValue(s) = last.value
            /\ s.phrases[n].startTime = GetEndTime(p)
            /\ s.phrases[n].endTime = GetEndTime(p)
            /\ s.phrases[n].startValue = GetEndValue(p)
            /\ GetStartValue(s) = GetStartValue(p)

\* set of a value that is neither the start value nor the previous end value.
C6_Witness ==
    /\ last.op = "set"
    /\ last.pre[1].phrases # <<>>
    /\ GetEndValue(last.pre[1]) # last.value
    /\ GetStartValue(last.pre[1]) # last.value
    /\ GetEndTime(last.pre[1]) > GetStartTime(last.pre[1])

\* C7: set(value) on a Sequence without phrases overwrites initialValue and
\* nothing else: no phrase, start and end time 0, getStartValue() =
\* getEndValue() = value, and getValue(t) = value at every time t.
C7_SetOnEmpty ==
    (last.op = "set" /\ last.pre[1].phrases = <<>>) =>
        LET s == View(1)
        IN  /\ GetPhraseCount(s) = 0
            /\ GetStartTime(s) = 0
            /\ GetEndTime(s) = 0
            /\ GetStartValue(s) = last.value
            /\ GetEndValue(s) = last.value
            /\ \A t \in Times : GetValue(s, t) = last.value

\* set of a new value on a Sequence without phrases.
C7_Witness ==
    /\ last.op = "set"
    /\ last.pre[1].phrases = <<>>
    /\ last.pre[1].initial_value # last.value
    /\ GetPhraseCount(View(1)) = 0
    /\ GetValue(View(1), 0) = last.value

\* C8: right after copy() the copy answers every query as the original does,
\* and whatever then and set calls are made on the copy, the original answers
\* every query as it did when it was copied.
C8_CopyIndependence ==
    /\ last.op = "copy" => Obs(View(2)) = Obs(View(1))
    /\ 2 \in alive => Obs(View(1)) = Obs(hist[2].origin)

\* The original had a phrase when copied, and the copy was then given a
\* phrase that changes its end time and end value.
C8_Witness ==
    /\ 2 \in alive
    /\ last.op = "then"
    /\ last.target = 2
    /\ hist[2].origin.phrases # <<>>
    /\ GetPhraseCount(View(2)) > GetPhraseCount(View(1))
    /\ GetEndTime(View(2)) # GetEndTime(View(1))
    /\ GetEndValue(View(2)) # GetEndValue(View(1))

\* C9: after every completed call the cached bounds agree with the list: both
\* are 0 when it is empty, else getStartTime() is the first phrase's start
\* time and getEndTime() the last phrase's end time.
C9_CachedBounds ==
    LET s == View(1)
    IN  IF s.phrases = <<>>
        THEN GetStartTime(s) = 0 /\ GetEndTime(s) = 0
        ELSE /\ GetStartTime(s) = s.phrases[1].startTime
             /\ GetEndTime(s) = s.phrases[Len(s.phrases)].endTime

\* A list-constructed Sequence whose first and last phrase differ in every
\* bound, after a then call that moved the end.
C9_Witness ==
    LET s == View(1)
    IN  /\ hist[1].ctorLen = 2
        /\ last.op = "then"
        /\ last.duration > 0
        /\ s.phrases[1].startTime # 0
        /\ s.phrases[1].endTime # s.phrases[Len(s.phrases)].endTime
        /\ s.phrases[1].endTime # s.phrases[1].startTime

\* C10: then with a negative duration is rejected: it appends no phrase and
\* leaves getPhraseCount(), getEndTime() and getEndValue() as they were.
C10_NegativeDurationRejected ==
    (last.op = "then" /\ last.duration < 0) =>
        /\ GetPhraseCount(View(1)) = GetPhraseCount(last.pre[1])
        /\ GetEndTime(View(1)) = GetEndTime(last.pre[1])
        /\ GetEndValue(View(1)) = GetEndValue(last.pre[1])

\* C11: constructing a Sequence from an empty phrase list is rejected: it
\* never yields a Sequence object.
C11_EmptyListRejected ==
    last.op = "construct_empty" => alive = {}

\* The Sequence as the then call in flight will leave it.
AfterThen == SetEndTime(View(1), writer.phrase.endTime)

InNewPhrase(t) == GetEndTime(writer.pre) <= t /\ t < writer.phrase.endTime

\* C12, as stated: a getValue(t) between the two writes of then sees
\* getEndTime() differ from the last phrase's end time, and for old end time
\* <= t < new end time returns the new phrase's end value, which is neither
\* what getValue(t) returned before the call nor what it returns after it.
C12_MidValueIsNeitherOldNorNew ==
    (reader.valid /\ reader.during /\ InNewPhrase(reader.t)) =>
        /\ GetEndTime(View(1)) # writer.phrase.endTime
        /\ reader.value = writer.phrase.endValue
        /\ reader.value # GetValue(writer.pre, reader.t)
        /\ reader.value # GetValue(AfterThen, reader.t)

\* C12, amended: on a Sequence built from a value with durations >= 0,
\* between the two writes of then the new phrase is in the list
\* and getEndTime() is still the old end time, which differs from the new
\* phrase's end time exactly when the duration is not 0; a getValue(t) there,
\* for old end time <= t < new end time, returns the new phrase's end value,
\* where the call before returned the old end value and the call after
\* returns the new phrase's getValue(t); the second write leaves the Sequence
\* as then leaves it.  With no then in flight getValue returns the value of
\* the Sequence as it is.
C12_MidValueIsNewEndValue ==
    reader.valid =>
        IF reader.during
        THEN /\ writer.pc = "appended"
             /\ View(1).phrases = Append(writer.pre.phrases, writer.phrase)
             /\ GetEndTime(View(1)) = GetEndTime(writer.pre)
             /\ (GetEndTime(View(1)) # writer.phrase.endTime)
                    <=> (last.duration # 0)
             /\ AfterThen = Then(writer.pre, last.kind, last.value, last.duration)
             /\ InNewPhrase(reader.t) =>
                    /\ reader.value = writer.phrase.endValue
                    /\ GetValue(writer.pre, reader.t) = GetEndValue(writer.pre)
                    /\ GetValue(AfterThen, reader.t)
                           = PhraseGetValue(writer.phrase, reader.t)
        ELSE /\ writer.pc = "idle"
             /\ reader.value = GetValue(View(1), reader.t)
             /\ GetValueBranch(View(1), reader.t) # "fallback"

\* A read between the two writes of a then that appends a ramp to a Sequence
\* with a phrase: the value read is neither the one before nor the one after.
C12_Witness ==
    /\ reader.valid
    /\ reader.during
    /\ writer.pre.phrases # <<>>
    /\ InNewPhrase(reader.t)
    /\ reader.value = writer.phrase.endValue
    /\ reader.value # GetValue(writer.pre, reader.t)
    /\ reader.value # GetValue(AfterThen, reader.t)

\* C13: after either constructor and any completed then and set calls,
\* getValue(t) returns at every time t from one of its two guards or from
\* inside the scan, never from the statement after the loop.
C13_FallbackUnreachable ==
    \A t \in Times : GetValueBranch(View(1), t) # "fallback"

\* A list-constructed Sequence with a phrase appended, where getValue returns
\* from inside the scan at the last phrase.
C13_Witness ==
    \E t \in Times :
        LET s == View(1)
        IN  /\ hist[1].ctorLen = 2
            /\ Len(s.phrases) = 3
            /\ GetValueBranch(s, t) = "scan"
            /\ ScanFrom(s.phrases, 1, t) = 3
            /\ GetValue(s, t) = PhraseGetValue(s.phrases[3], t)

\* C14: a then of duration >= 0, or a set on a Sequence that has a phrase,
\* leaves getStartTime() and getStartValue() as they were, keeps the earlier
\* phrases in their places, adds one phrase at the tail, and at every time
\* before the previous end time getValue returns what it returned before.
C14_AppendKeepsHistory ==
    (\/ last.op = "then" /\ last.duration >= 0
     \/ last.op = "set" /\ last.pre[1].phrases # <<>>) =>
        LET s == View(1)
            p == last.pre[1]
            n == Len(s.phrases)
        IN  /\ GetStartTime(s) = GetStartTime(p)
            /\ GetStartValue(s) = GetStartValue(p)
            /\ GetPhraseCount(s) = GetPhraseCount(p) + 1
            /\ \A i \in 1..Len(p.phrases) : s.phrases[i] = p.phrases[i]
            /\ s.phrases[n].startTime = GetEndTime(p)
            /\ s.phrases[n].endValue = last.value
            /\ \A t \in Times :
                   t < GetEndTime(p) => GetValue(s, t) = GetValue(p, t)

\* A then of positive duration on a Sequence of two phrases or more, with a
\* time inside the earlier phrases whose value is not the appended one.
C14_Witness ==
    /\ last.op = "then"
    /\ last.duration > 0
    /\ Len(last.pre[1].phrases) >= 2
    /\ \E t \in Times :
           /\ GetStartTime(View(1)) <= t
           /\ t < GetEndTime(last.pre[1])
           /\ GetValue(View(1), t) # last.value
           /\ GetValue(View(1), t) = GetValue(last.pre[1], t)

\* C15: whenever the Sequence has a phrase, getStartValue() is the first
\* phrase's start value, and so is getValue just before getStartTime().
C15_StartValueIsFirstPhraseStart ==
    LET s == View(1)
    IN  s.phrases # <<>> =>
            /\ GetStartValue(s) = s.phrases[1].startValue
            /\ GetValue(s, GetStartTime(s) - 1) = s.phrases[1].startValue
            /\ GetValueBranch(s, GetStartTime(s) - 1) = "initial"

\* A Sequence constructed from two phrases with different start values, after
\* a set.
C15_Witness ==
    LET s == View(1)
    IN  /\ hist[1].ctorLen = 2
        /\ last.op = "set"
        /\ Len(s.phrases) = 3
        /\ s.phrases[1].startValue # s.phrases[2].startValue
        /\ GetStartValue(s) = s.phrases[1].startValue
        /\ GetValue(s, GetStartTime(s) - 1) = s.phrases[1].startValue

====
